---- MODULE Spec2Model ----
(***************************************************************************)
(* KeystoneEmailParser: the staged extraction orchestrator                 *)
(* (EnhancedParser.parse / parse_email, EmailParser.parse_email), its      *)
(* recovery path (recover_from_failure / _reinitialize_models) and the     *)
(* merge of stage results into the accumulated Document.                   *)
(***************************************************************************)
EXTENDS Integers, Sequences, FiniteSets, TLC

VARIABLES
    entry,              \* which entry operation the caller used
    email_content,      \* TRUE iff a non-empty text was supplied
    document_image,     \* TRUE iff an image was supplied
    pc,                 \* position of the calling flow of control
    stageIdx,           \* index into the stage list of parse
    parsed_data,        \* the binding parsed_data of parse (accumulated Document)
    kwargs_parsed_data, \* the dict object captured in the stages' kwargs
    worker,             \* state of the ThreadPoolExecutor worker of the stage
    worker_arg,         \* the parsed_data argument the running stage was given
    stage_result,       \* what the worker's future holds
    models,             \* pipeline attribute -> TRUE iff not None
    status,             \* per stage: what happened to it in this run
    recover_calls,      \* per stage: calls of recover_from_failure
    reinit_attempts,    \* per stage: calls of _reinitialize_models
    recover_result,     \* per stage: what recover_from_failure returned
    failures,           \* number of failed stages in this run
    result,             \* what the entry operation handed to its caller
    validate_json_calls,\* calls of validate_json in this run
    document,           \* DataMerger: the Document the merges accumulate
    original_data,      \* DataMerger: the Document the last merge call was given
    new_data,           \* DataMerger: the partial result of the last merge call
    changes,            \* DataMerger: the MergeChange records of the last call
    section_errors,     \* DataMerger: sections whose merge raised in the last call
    merge_outcome,      \* DataMerger: how the last merge call ended
    merge_calls,        \* DataMerger: number of merge calls so far
    observed,           \* DataMerger: the schema fields some partial result carried
    field_type,         \* merge_field_values: "type" of the field_config
    field_value,        \* merge_field_values: the value list of the field
    field_new,          \* merge_field_values: the new list of the last call
    field_stored,       \* merge_field_values: a merge stored a value other than "N/A"
    field_merges,       \* merge_field_values: number of calls so far
    parser_sid,         \* registry parser: its attribute sid
    parser_models,      \* registry parser: pipeline attribute -> TRUE iff not None
    task_pc,            \* per background_parse task: its position
    task_step,          \* per task: canned progress steps emitted so far
    task_stage,         \* per task: index into the stage list of its parse call
    task_reinit,        \* per task: the init_* call of _reinitialize_models it is in
    task_document,      \* per task: the tasks whose stages wrote its parsed_data
    emitted             \* per sid: the events socketio.emit sent to that room

\* the state of one run of the orchestrator
OrchestratorVars ==
    << entry, email_content, document_image, pc, stageIdx, parsed_data,
       kwargs_parsed_data, worker, worker_arg, stage_result, models,
       status, recover_calls, reinit_attempts, recover_result, failures,
       result, validate_json_calls >>

\* the state of a DataMerger that is given partial results one after another
MergeVars ==
    << document, original_data, new_data, changes, section_errors,
       merge_outcome, merge_calls, observed >>

\* the state of one field that merge_field_values is applied to repeatedly
FieldVars == << field_type, field_value, field_new, field_stored, field_merges >>

\* the registry's parser and the background_parse tasks that share it
SharedVars ==
    << parser_sid, parser_models, task_pc, task_step, task_stage, task_reinit,
       task_document, emitted >>

\* what the orchestrator run leaves alone
Detached == << MergeVars, FieldVars, SharedVars >>

vars == << OrchestratorVars, MergeVars, FieldVars, SharedVars >>

(***************************************************************************)
(* Bounds of the model                                                     *)
(***************************************************************************)
\* at most this many stages fail (time out, error) in one run
MaxFailures == 1

\* at most this many init_* calls of one reinitialization fail to load
MaxInitFailures == 1

(***************************************************************************)
(* Static data                                                             *)
(***************************************************************************)
\* the declared stage list of parse, in order
StageNames ==
    << "Initial Parsing", "NER Parsing", "Donut Parsing",
       "Sequence Model Parsing", "Comprehensive Validation",
       "Sentiment Analysis", "Post Processing", "JSON Validation" >>

Stages == 1 .. Len(StageNames)

\* stage_name.lower().replace(" ", "_")
stage_key(i) ==
    CASE i = 1 -> "initial_parsing"
      [] i = 2 -> "ner_parsing"
      [] i = 3 -> "donut_parsing"
      [] i = 4 -> "sequence_model_parsing"
      [] i = 5 -> "comprehensive_validation"
      [] i = 6 -> "sentiment_analysis"
      [] i = 7 -> "post_processing"
      [] i = 8 -> "json_validation"

\* the stages whose kwargs carry parsed_data
DocStages == { 5, 6, 7, 8 }

\* the pipeline attributes of the parser, in the order they are (re)initialized
Pipelines ==
    << "initial_parsing_pipeline", "ner_pipeline", "donut_model",
       "sequence_model_pipeline", "validation_pipeline", "sentiment_pipeline" >>

PipelineSet == { Pipelines[k] : k \in 1 .. Len(Pipelines) }

\* the pipeline an extraction stage runs on
stage_pipeline(i) ==
    CASE i = 1 -> "initial_parsing_pipeline"
      [] i = 2 -> "ner_pipeline"
      [] i = 3 -> "donut_model"
      [] i = 4 -> "sequence_model_pipeline"

\* schema fields (section.field) of type string that the extractors fill
SchemaFieldSeq == << "Requesting Party.Handler", "Insured Information.Name" >>

SchemaFields == { SchemaFieldSeq[k] : k \in 1 .. Len(SchemaFieldSeq) }

\* observed values
Values == { "a", "b" }

NA == "N/A"

\* the value None
NoneVal == "None"

(***************************************************************************)
(* Documents                                                               *)
(***************************************************************************)
\* {} : no section at all. fields are the schema fields of the Document;
\* validation_issues, missing_fields and formatted_output are its keys of
\* these names (empty: the key is absent)
EmptyDoc ==
    [ fields |-> << >>, validation_issues |-> << >>, missing_fields |-> << >>,
      formatted_output |-> << >> ]

IsEmpty(d) ==
    /\ DOMAIN d.fields = {}
    /\ d.validation_issues = << >>
    /\ d.missing_fields = << >>
    /\ DOMAIN d.formatted_output = {}

\* partial results an extraction stage can return: some fields, one value each
Partials ==
    { [ EmptyDoc EXCEPT !.fields = f ] :
        f \in UNION { [ S -> { << v >> : v \in Values } ] :
                        S \in (SUBSET SchemaFields) \ { {} } } }

RECURSIVE Dedup(_, _)
\* the loop of merge_field_values: keep the first occurrence of each item that
\* is not "N/A"
Dedup(items, seen) ==
    IF items = << >> THEN << >>
    ELSE IF Head(items) = NA \/ Head(items) \in seen
         THEN Dedup(Tail(items), seen)
         ELSE << Head(items) >> \o Dedup(Tail(items), seen \cup { Head(items) })

\* a merge that appends the new values to the existing ones as they come
merge_field_values_without_dedup(existing, new) == existing \o new

\* DataMerger.merge_field_values for a field of type string
merge_field_values(existing, new) ==
    LET existing_list ==
            IF \E k \in 1 .. Len(new) : new[k] # NA
            THEN SelectSeq(existing, LAMBDA v : v # NA)
            ELSE existing
        merged == Dedup(existing_list \o new, {})
    IN  IF merged # << >> THEN merged ELSE << NA >>

\* EnhancedParser._validate_merged_data: every required field exists
validate_merged_data(f) ==
    [ x \in SchemaFields |-> IF x \in DOMAIN f THEN f[x] ELSE << NA >> ]

\* EnhancedParser.merge_parsed_data on a well-formed partial result
merge_parsed_data(orig, new) ==
    LET merged ==
            [ x \in DOMAIN orig.fields \cup DOMAIN new.fields |->
                IF x \in DOMAIN new.fields
                THEN merge_field_values(
                         IF x \in DOMAIN orig.fields
                         THEN orig.fields[x] ELSE << NA >>,
                         new.fields[x])
                ELSE orig.fields[x] ]
    IN  [ orig EXCEPT !.fields = validate_merged_data(merged) ]


(***************************************************************************)
(* Validation of the final Document                                        *)
(***************************************************************************)
\* the top-level sections validate_json requires to be present and not empty
RequiredSections ==
    << "Requesting Party", "Insured Information", "Adjuster Information",
       "Assignment Information", "Assignment Type",
       "Additional details/Special Instructions", "Attachment(s)",
       "Entities", "TransformerEntities" >>

\* the sections _validate_merged_data creates empty ({} or []) and no
\* extraction stage of the model fills
EmptyCreatedSections ==
    { "Additional details/Special Instructions", "Attachment(s)",
      "Entities", "TransformerEntities" }

\* the sections the required-sections loop of validate_json reports
\* ("Missing required field: <section>")
missing_sections(d) ==
    SelectSeq(RequiredSections,
              LAMBDA s : DOMAIN d.fields = {} \/ s \in EmptyCreatedSections)

\* the keys of the Document that are not properties of assignment_schema
\* ("Unexpected property found: <key>"): validation_issues and
\* formatted_output are none, missing_fields is one
unexpected_properties(d) ==
    (IF d.validation_issues # << >>
     THEN << "Unexpected property found: validation_issues" >> ELSE << >>)
    \o (IF DOMAIN d.formatted_output # {}
        THEN << "Unexpected property found: formatted_output" >> ELSE << >>)

\* validate_json: its error message, as the sequence of the messages of its
\* required-sections loop and of its unexpected-properties loop; the empty
\* sequence when it reports none
validate_json(d) == missing_sections(d) \o unexpected_properties(d)

\* EnhancedParser.validate_input
validate_input(text, image) == text \/ image

(***************************************************************************)
(* Recovery                                                                *)
(***************************************************************************)
\* the stage keys recover_from_failure reinitializes the models for
RecoverableKeys ==
    { "initial_parsing", "ner_parsing", "donut_parsing",
      "sequence_model_parsing", "validation_parsing", "schema_validation",
      "post_processing", "json_validation", "sentiment_analysis" }

\* a health check that leaves out the pipeline added last
health_check_without_sentiment(m) ==
    \A p \in PipelineSet \ { "sentiment_pipeline" } : m[p]

\* EnhancedParser.health_check: every pipeline attribute is set
health_check(m) == \A p \in PipelineSet : m[p]

\* what the six init_* calls of one reinitialization can leave behind: each
\* pipeline loaded, or None
InitOutcomes ==
    { out \in [ PipelineSet -> BOOLEAN ] :
        Cardinality({ p \in PipelineSet : ~out[p] }) <= MaxInitFailures }

\* the pipeline attributes after _reinitialize_models ran its init_* calls
\* with outcomes out, the raiseAt-th of them (if any) raising an exception
\* that is neither OSError nor ValueError
reinitialized(m, out, raiseAt) ==
    [ p \in PipelineSet |->
        IF raiseAt = 0 \/ (\E k \in 1 .. (raiseAt - 1) : Pipelines[k] = p)
        THEN out[p] ELSE m[p] ]

(***************************************************************************)
(* DataMerger: the merge of one partial result, section by section, with   *)
(* its MergeChange records                                                 *)
(***************************************************************************)
\* at most this many merge calls on one Document
MaxMerges == 2

\* Python's True and False, written as str() shows them
PyTrue == "True"

PyFalse == "False"

\* the dict the completion pass stores for a malformed "Other" field
OtherCanonical == "{'Checked': False, 'Details': 'N/A'}"

\* the content of a section: a dict of fields (each a value list), a list of
\* items, or a scalar
Dict(f) == [ kind |-> "dict", fields |-> f, items |-> << >> ]

List(s) == [ kind |-> "list", fields |-> << >>, items |-> s ]

Scalar(v) == [ kind |-> "scalar", fields |-> << >>, items |-> << v >> ]

\* d[k] = v
Put(d, k, v) == [ x \in DOMAIN d \cup { k } |-> IF x = k THEN v ELSE d[x] ]

\* the sections and fields of QUICKBASE_SCHEMA the merge is followed on, in
\* schema order
MergeSchemaSections ==
    << "Insured Information", "Assignment Information", "Assignment Type" >>

MergeSchemaSectionSet ==
    { MergeSchemaSections[k] : k \in 1 .. Len(MergeSchemaSections) }

\* the fields of a schema section, in schema order
SectionFields(section) ==
    CASE section = "Insured Information" -> << "Name" >>
      [] section = "Assignment Information" ->
            << "Date of Loss/Occurrence", "Residence Occupied During Loss" >>
      [] section = "Assignment Type" -> << "Other" >>
      [] OTHER -> << >>

\* field_config.get("type") of QUICKBASE_SCHEMA[section][field]: the date of
\* loss is declared "type": "string" with "format": "date"
schema_type(section, field) ==
    CASE field = "Name" -> "string"
      [] field = "Date of Loss/Occurrence" -> "string"
      [] field = "Residence Occupied During Loss" -> "boolean"
      [] field = "Other" -> "object"

\* "required": True in QUICKBASE_SCHEMA
schema_required(section, field) == field # "Other"

\* the keys of a partial result or Document outside QUICKBASE_SCHEMA
FreeFormList == "validation_issues"

FreeFormScalar == "email_content"

\* new_data.items(): the sections of a partial result in iteration order
MergeSections ==
    MergeSchemaSections \o << FreeFormList, FreeFormScalar >>

\* bool(v): False and the empty string are falsy, every other string is truthy
bool(v) == IF v \in { PyFalse, "" } THEN PyFalse ELSE PyTrue

\* the boolean a text value stands for, as _stage_post_processing_internal
\* reads it: value.lower() == "yes" or value.lower() == "true"
text_to_bool(v) ==
    IF v \in { PyTrue, PyFalse } THEN v
    ELSE IF v \in { "true", "yes" } THEN PyTrue ELSE PyFalse

\* datetime.fromisoformat(date.replace("Z", "+00:00")) does not raise ValueError
fromisoformat_ok(date) == date \in { "2024-01-15", "2024-01-15T08:30:00Z" }

\* dt.strftime("%Y-%m-%d")
strftime(date) ==
    CASE date \in { "2024-01-15", "2024-01-15T08:30:00Z" } -> "2024-01-15"
      [] OTHER -> date

\* DataMerger._format_dates
format_dates(dates) ==
    LET parsed == SelectSeq(dates, LAMBDA d : d # NA /\ fromisoformat_ok(d))
        formatted == [ k \in 1 .. Len(parsed) |-> strftime(parsed[k]) ]
    IN  IF formatted # << >> THEN formatted ELSE << NA >>

\* email.lower().strip()
lower_strip(email) ==
    CASE email = " A@X.COM" -> "a@x.com"
      [] OTHER -> email

\* merge_field_values raises: new_list[-1] of an empty list (IndexError)
merge_field_values_raises(new, type) == type = "boolean" /\ new = << >>

\* a merge whose default branch keeps the new value list only
typed_merge_field_values_ignoring_existing(existing, new, type) ==
    CASE type = "boolean" -> << bool(new[Len(new)]) >>
      [] type = "date" -> format_dates(new)
      [] type = "email" ->
            LET kept == SelectSeq(new, LAMBDA v : v # NA)
            IN  [ k \in 1 .. Len(kept) |-> lower_strip(kept[k]) ]
      [] OTHER -> merge_field_values(<< NA >>, new)

\* DataMerger.merge_field_values with a field_config of the given "type"
\* ("" : no field_config)
typed_merge_field_values(existing, new, type) ==
    CASE type = "boolean" -> << bool(new[Len(new)]) >>
      [] type = "date" -> format_dates(new)
      [] type = "email" ->
            LET kept == SelectSeq(new, LAMBDA v : v # NA)
            IN  [ k \in 1 .. Len(kept) |-> lower_strip(kept[k]) ]
      [] OTHER -> merge_field_values(existing, new)

\* MergeChange(section, field, old_value, new_value, change_type)
MergeChange(section, field, old_value, new_value, change_type) ==
    [ section |-> section, field |-> field, old_value |-> old_value,
      new_value |-> new_value, change_type |-> change_type ]

\* result[section].get(field, ["N/A"])
field_get(data, section, field) ==
    IF section \in DOMAIN data /\ field \in DOMAIN data[section].fields
    THEN data[section].fields[field]
    ELSE << NA >>

RECURSIVE merge_fields(_, _, _, _)
\* "for field, value in fields.items()" of a schema section: st is the merge
\* so far (result, changes, errors), todo the fields still to come. An
\* exception ends the loop and leaves what the earlier fields stored
merge_fields(st, section, fields, todo) ==
    IF todo = << >> THEN st
    ELSE IF Head(todo) \notin DOMAIN fields
    THEN merge_fields(st, section, fields, Tail(todo))
    ELSE LET field == Head(todo)
             type == schema_type(section, field)
             old_value == field_get(st.result, section, field)
         IN  IF \/ st.result[section].kind # "dict"
                \/ merge_field_values_raises(fields[field], type)
             THEN [ st EXCEPT !.errors = @ \cup { section } ]
             ELSE LET new_value ==
                          typed_merge_field_values(old_value, fields[field], type)
                      stored ==
                          [ st EXCEPT
                              !.result = Put(@, section,
                                  Dict(Put(st.result[section].fields, field, new_value))),
                              !.changes = Append(@,
                                  MergeChange(section, field, List(old_value),
                                              List(new_value), "update")) ]
                  IN  merge_fields(IF old_value # new_value THEN stored ELSE st,
                                   section, fields, Tail(todo))

\* the body of "for section, fields in new_data.items()" for one section of
\* QUICKBASE_SCHEMA, given as a dict or as a scalar
merge_schema_section(st, section, fields) ==
    LET created ==
            IF section \in DOMAIN st.result THEN st
            ELSE [ st EXCEPT
                     !.result = Put(@, section, Dict(<< >>)),
                     !.changes = Append(@,
                         MergeChange(section, NoneVal, Scalar(NoneVal),
                                     Dict(<< >>), "create")) ]
    IN  IF fields.kind = "dict"
        THEN merge_fields(created, section, fields.fields, SectionFields(section))
        ELSE [ created EXCEPT
                 !.result = Put(@, section, fields),
                 !.changes = Append(@,
                     MergeChange(section, NoneVal, created.result[section],
                                 fields, "update")) ]

\* the same for a section outside QUICKBASE_SCHEMA: a list is extended with
\* the items it does not hold yet (the record's old_value is the list object
\* that is extended), anything else is overwritten
merge_free_section(st, section, fields) ==
    IF fields.kind = "list"
    THEN LET created ==
                 IF section \in DOMAIN st.result THEN st
                 ELSE [ st EXCEPT
                          !.result = Put(@, section, List(<< >>)),
                          !.changes = Append(@,
                              MergeChange(section, NoneVal, Scalar(NoneVal),
                                          List(<< >>), "create")) ]
             held == created.result[section].items
             new_items ==
                 SelectSeq(fields.items,
                           LAMBDA x : ~(\E k \in 1 .. Len(held) : held[k] = x))
             extended == List(held \o new_items)
         IN  IF created.result[section].kind # "list"
             THEN [ created EXCEPT !.errors = @ \cup { section } ]
             ELSE IF new_items = << >> THEN created
             ELSE [ created EXCEPT
                      !.result = Put(@, section, extended),
                      !.changes = Append(@,
                          MergeChange(section, NoneVal, extended, extended,
                                      "update")) ]
    ELSE [ st EXCEPT
             !.result = Put(@, section, fields),
             !.changes = Append(@,
                 MergeChange(section, NoneVal,
                             IF section \in DOMAIN st.result
                             THEN st.result[section] ELSE Scalar(NoneVal),
                             fields, "update")) ]

RECURSIVE merge_sections(_, _, _)
\* "for section, fields in new_data.items()"
merge_sections(st, new, todo) ==
    IF todo = << >> THEN st
    ELSE IF Head(todo) \notin DOMAIN new
    THEN merge_sections(st, new, Tail(todo))
    ELSE merge_sections(
             IF Head(todo) \in MergeSchemaSectionSet
             THEN merge_schema_section(st, Head(todo), new[Head(todo)])
             ELSE merge_free_section(st, Head(todo), new[Head(todo)]),
             new, Tail(todo))

\* the required_sections table of _validate_merged_data, for the sections
\* followed here: every field of the section
required_fields(section) == SectionFields(section)

\* _validate_merged_data raises ValueError: a required section that is not a
\* dict cannot take the missing fields (TypeError, re-raised as ValueError)
validate_merged_data_raises(data) ==
    \E section \in MergeSchemaSectionSet :
        section \in DOMAIN data /\ data[section].kind # "dict"

\* the "Other" check of _validate_merged_data: a non-empty list whose first
\* item is not a dict with "Checked" and "Details" is replaced
normalized_other(other) ==
    IF other # << >> /\ other[1] # OtherCanonical
    THEN << OtherCanonical >> ELSE other

\* the sections _validate_merged_data adds when absent: {} or, for the
\* attachments, []
added_section(section) ==
    IF section = "Attachment(s)" THEN List(<< >>) ELSE Dict(<< >>)

\* a completion pass that creates the sections but not their fields
validate_merged_data_without_fields(data) ==
    [ section \in DOMAIN data \cup MergeSchemaSectionSet \cup EmptyCreatedSections |->
        IF section \in DOMAIN data THEN data[section]
        ELSE added_section(section) ]

\* DataMerger._validate_merged_data on data whose required sections are dicts:
\* every required section and field exists afterwards
DataMerger_validate_merged_data(data) ==
    [ section \in DOMAIN data \cup MergeSchemaSectionSet \cup EmptyCreatedSections |->
        IF section \in MergeSchemaSectionSet
        THEN LET held == IF section \in DOMAIN data THEN data[section].fields
                         ELSE << >>
                 names == { required_fields(section)[k] :
                              k \in 1 .. Len(required_fields(section)) }
             IN  Dict([ field \in DOMAIN held \cup names |->
                          LET value == IF field \in DOMAIN held THEN held[field]
                                       ELSE << NA >>
                          IN  IF section = "Assignment Type" /\ field = "Other"
                              THEN normalized_other(value) ELSE value ])
        ELSE IF section \in DOMAIN data THEN data[section]
        ELSE added_section(section) ]

\* DataMerger.merge_parsed_data(original_data, new_data) on two dicts: the
\* Document it returns, or the ValueError of the completion pass, with the
\* MergeChange records of the call and the sections whose merge raised
DataMerger_merge_parsed_data(orig, new) ==
    LET st == merge_sections([ result |-> orig, changes |-> << >>, errors |-> {} ],
                             new, MergeSections)
    IN  IF validate_merged_data_raises(st.result)
        THEN [ outcome |-> "raised", result |-> orig,
               changes |-> st.changes, errors |-> st.errors ]
        ELSE [ outcome |-> "returned",
               result |-> DataMerger_validate_merged_data(st.result),
               changes |-> st.changes, errors |-> st.errors ]

(***************************************************************************)
(* The partial results the merge is followed on                            *)
(***************************************************************************)
\* { k: v }
One(k, v) == [ x \in { k } |-> v ]

\* value lists observed for the date of loss
DateObservations == { << "2024/01/15" >>, << "2024-01-15" >> }

\* value lists observed for a boolean field: True or False (the Donut mapping),
\* a text (the text stages), or no value at all
BoolObservations == { << PyTrue >>, << PyFalse >>, << "false" >>, << >> }

\* "Insured Information" of a partial result: a dict, or a bare text
InsuredContents ==
    { Dict(One("Name", << "a" >>)), Dict(One("Name", << NA >>)), Scalar("t1") }

\* "Assignment Information" of a partial result
AssignmentContents ==
    { Dict(f) :
        f \in { g \in UNION { [ S -> DateObservations \cup BoolObservations ] :
                    S \in (SUBSET { "Date of Loss/Occurrence",
                                    "Residence Occupied During Loss" }) \ { {} } } :
                  \A x \in DOMAIN g :
                      g[x] \in IF x = "Date of Loss/Occurrence"
                               THEN DateObservations ELSE BoolObservations } }

\* partial results of schema sections with string, date and boolean fields
SchemaPartials ==
    { One("Insured Information", i) : i \in InsuredContents }
    \cup { One("Assignment Information", a) : a \in AssignmentContents }
    \cup { Put(One("Insured Information", i), "Assignment Information", a) :
             i \in InsuredContents, a \in AssignmentContents }

\* a partial result with the object field "Other"
OtherPartials == { One("Assignment Type", Dict(One("Other", << "x" >>))) }

\* partial results of sections outside the schema
FreeFormPartials ==
    { One(FreeFormList, List(<< "i1" >>)),
      One(FreeFormScalar, Scalar("t1")),
      Put(One(FreeFormList, List(<< "i1" >>)), FreeFormScalar, Scalar("t1")) }

MergePartials == SchemaPartials \cup OtherPartials \cup FreeFormPartials

\* the section.field pairs a partial result carries
SchemaPairs ==
    UNION { { << s, SectionFields(s)[k] >> : k \in 1 .. Len(SectionFields(s)) } :
              s \in MergeSchemaSectionSet }

carried(new) ==
    { sf \in SchemaPairs :
        sf[1] \in DOMAIN new /\ sf[2] \in DOMAIN new[sf[1]].fields }

(***************************************************************************)
(* merge_field_values applied to one field again and again                 *)
(***************************************************************************)
\* at most this many merges into the one field
MaxFieldMerges == 3

\* the "type" values merge_field_values tells apart
FieldTypes == { "string", "boolean", "date", "email" }

\* the new value lists a field of a type is given
FieldObservations(type) ==
    CASE type = "boolean" -> { << PyTrue >>, << PyFalse >>, << "false" >>, << NA >> }
      [] type = "date" ->
            DateObservations \cup { << "2024-01-15T08:30:00Z" >>, << NA >> }
      [] type = "email" -> { << " A@X.COM" >>, << "a@x.com" >>, << NA >> }
      [] OTHER -> { << "a" >>, << "b" >>, << "c" >>, << "a", "b" >>, << NA >>, << >> }

(***************************************************************************)
(* States in which a part of the model is not in use                       *)
(***************************************************************************)
\* no request has been handed to the parser
OrchestratorIdle ==
    /\ entry = "EnhancedParser.parse_email"
    /\ email_content = TRUE
    /\ document_image = FALSE
    /\ pc = "idle"
    /\ stageIdx = 0
    /\ parsed_data = EmptyDoc
    /\ kwargs_parsed_data = EmptyDoc
    /\ worker = "idle"
    /\ worker_arg = NoneVal
    /\ stage_result = NoneVal
    /\ models = [ p \in PipelineSet |-> TRUE ]
    /\ status = [ i \in Stages |-> "pending" ]
    /\ recover_calls = [ i \in Stages |-> 0 ]
    /\ reinit_attempts = [ i \in Stages |-> 0 ]
    /\ recover_result = [ i \in Stages |-> "not called" ]
    /\ failures = 0
    /\ result = NoneVal
    /\ validate_json_calls = 0

\* a DataMerger before its first merge call: the Document is {}
MergeIdle ==
    /\ document = << >>
    /\ original_data = << >>
    /\ new_data = << >>
    /\ changes = << >>
    /\ section_errors = {}
    /\ merge_outcome = "none"
    /\ merge_calls = 0
    /\ observed = {}

\* a field nothing was merged into: result[section].get(field, ["N/A"])
FieldIdle ==
    /\ field_type = "string"
    /\ field_value = << NA >>
    /\ field_new = << >>
    /\ field_stored = FALSE
    /\ field_merges = 0

\* the socket ids of the clients whose requests share the registry's parser
Sids == { "sid1", "sid2" }

\* the canned steps background_parse reports before it calls parse_email
ProgressSteps ==
    << "Initializing parser", "Processing email content", "Extracting entities",
       "Finalizing results", "Completed" >>

\* socketio.emit(name, ..., room=sid): the event, with the step it names
Event(name, stage) == [ name |-> name, stage |-> stage ]

\* the registry holds its parser, no request has arrived
SharedIdle ==
    /\ parser_sid = NoneVal
    /\ parser_models = [ p \in PipelineSet |-> TRUE ]
    /\ task_pc = [ t \in Sids |-> "new" ]
    /\ task_step = [ t \in Sids |-> 0 ]
    /\ task_stage = [ t \in Sids |-> 0 ]
    /\ task_reinit = [ t \in Sids |-> 0 ]
    /\ task_document = [ t \in Sids |-> {} ]
    /\ emitted = [ t \in Sids |-> << >> ]

(***************************************************************************)
(* Initial state: one request arrives at a constructed, healthy parser     *)
(***************************************************************************)
Init ==
    /\ entry \in { "EnhancedParser.parse_email", "EmailParser.parse_email" }
    /\ email_content \in BOOLEAN
    /\ document_image \in BOOLEAN
    /\ (entry = "EmailParser.parse_email" => ~document_image)
    /\ pc = "idle"
    /\ stageIdx = 0
    /\ parsed_data = EmptyDoc
    /\ kwargs_parsed_data = EmptyDoc
    /\ worker = "idle"
    /\ worker_arg = NoneVal
    /\ stage_result = NoneVal
    /\ models = [ p \in PipelineSet |-> TRUE ]
    /\ status = [ i \in Stages |-> "pending" ]
    /\ recover_calls = [ i \in Stages |-> 0 ]
    /\ reinit_attempts = [ i \in Stages |-> 0 ]
    /\ recover_result = [ i \in Stages |-> "not called" ]
    /\ failures = 0
    /\ result = NoneVal
    /\ validate_json_calls = 0
    /\ MergeIdle
    /\ FieldIdle
    /\ SharedIdle

\* parse, up to the stage loop: parsed_data = {} and the stage list, whose
\* kwargs capture that dict object
EnterParse ==
    /\ pc' = "loop"
    /\ stageIdx' = 1
    /\ parsed_data' = EmptyDoc
    /\ kwargs_parsed_data' = EmptyDoc
    /\ UNCHANGED << worker, worker_arg, stage_result, models, status,
                    recover_calls, reinit_attempts, recover_result, failures >>

\* EnhancedParser.parse_email, up to its call of parse
EnhancedParser_parse_email ==
    /\ UNCHANGED Detached
    /\ UNCHANGED validate_json_calls
    /\ pc = "idle"
    /\ entry = "EnhancedParser.parse_email"
    /\ UNCHANGED << entry, email_content, document_image >>
    /\ IF ~validate_input(email_content, document_image)
       THEN /\ pc' = "returned"
            /\ result' = [ kind |-> "value", doc |-> EmptyDoc ]
            /\ UNCHANGED << stageIdx, parsed_data, kwargs_parsed_data, worker,
                            worker_arg, stage_result, models, status,
                            recover_calls, reinit_attempts, recover_result,
                            failures >>
       ELSE /\ EnterParse
            /\ UNCHANGED result

\* EmailParser.parse_email, up to its call of parser_instance.parse
EmailParser_parse_email ==
    /\ UNCHANGED Detached
    /\ UNCHANGED validate_json_calls
    /\ pc = "idle"
    /\ entry = "EmailParser.parse_email"
    /\ EnterParse
    /\ UNCHANGED << entry, email_content, document_image, result >>


(***************************************************************************)
(* The stage loop of parse                                                 *)
(***************************************************************************)
Inputs == << entry, email_content, document_image >>

Recovery == << recover_calls, reinit_attempts, recover_result >>

\* a skip test that looks at the wrong input
skipped_wrong_input(i) == i = 3 /\ ~email_content

\* "if stage_name == 'Donut Parsing' and not document_image: continue"
skipped(i) == i = 3 /\ ~document_image

\* the loop skips the stage: nothing is executed, nothing is recorded
StageSkip ==
    /\ UNCHANGED Detached
    /\ UNCHANGED validate_json_calls
    /\ pc = "loop"
    /\ stageIdx \in Stages
    /\ skipped(stageIdx)
    /\ stageIdx' = stageIdx + 1
    /\ status' = [ status EXCEPT ![stageIdx] = "skipped" ]
    /\ UNCHANGED << Inputs, Recovery, pc, parsed_data, kwargs_parsed_data,
                    worker, worker_arg, stage_result, models, failures, result >>

\* executor.submit(stage_method, **kwargs); the caller then waits in
\* future.result(timeout=timeout_seconds)
StageSubmit ==
    /\ UNCHANGED Detached
    /\ UNCHANGED validate_json_calls
    /\ pc = "loop"
    /\ stageIdx \in Stages
    /\ ~skipped(stageIdx)
    /\ pc' = "running"
    /\ worker' = "running"
    /\ worker_arg' = IF stageIdx \in DocStages THEN kwargs_parsed_data ELSE NoneVal
    /\ stage_result' = NoneVal
    /\ status' = [ status EXCEPT ![stageIdx] = "running" ]
    /\ UNCHANGED << Inputs, Recovery, stageIdx, parsed_data, kwargs_parsed_data,
                    models, failures, result >>

\* the input an extraction stage needs
has_input(i) == IF i = 3 THEN document_image ELSE email_content

\* _lazy_load_initial_parsing, which _stage_initial_parsing calls: it is not
\* among the source files and is taken to do what its siblings do
lazy_load_initial_parsing ==
    IF models["initial_parsing_pipeline"] THEN { TRUE } ELSE BOOLEAN

\* _lazy_load_*: a pipeline that is None is initialized again, which may fail
LazyLoaded(i) ==
    IF i = 1 THEN lazy_load_initial_parsing
    ELSE IF models[stage_pipeline(i)] THEN { TRUE } ELSE BOOLEAN

\* what the extraction of a stage can yield when its pipeline answers: a
\* partial result or {}. ner_parsing yields {} only: an entity with a pattern
\* list reaches re.search, and the module does not import re (the NameError is
\* caught in ner_parsing), and an entity without patterns is not relevant
Extracted(i) == IF i = 2 THEN { EmptyDoc } ELSE Partials \cup { EmptyDoc }

\* the worker runs _stage_initial_parsing, _stage_ner_parsing,
\* _stage_donut_parsing or _stage_sequence_model_parsing to its end: every
\* exception of the extractor is caught inside the stage, which then returns {}
ExtractionStageReturns ==
    /\ UNCHANGED Detached
    /\ UNCHANGED validate_json_calls
    /\ pc = "running"
    /\ worker = "running"
    /\ stageIdx \in 1 .. 4
    /\ worker' = "done"
    /\ IF ~has_input(stageIdx)
       THEN /\ stage_result' = [ kind |-> "dict", doc |-> EmptyDoc, error |-> FALSE ]
            /\ UNCHANGED << models, failures >>
       ELSE \E loaded \in LazyLoaded(stageIdx) :
              /\ models' = [ models EXCEPT ![stage_pipeline(stageIdx)] = loaded ]
              /\ IF ~loaded
                 THEN /\ stage_result' =
                            [ kind |-> "dict", doc |-> EmptyDoc, error |-> FALSE ]
                      /\ UNCHANGED failures
                 ELSE \/ \E p \in Extracted(stageIdx) :
                            /\ stage_result' =
                                 [ kind |-> "dict", doc |-> p, error |-> FALSE ]
                            /\ UNCHANGED failures
                      \/ /\ failures < MaxFailures
                         /\ stage_result' =
                              [ kind |-> "dict", doc |-> EmptyDoc, error |-> TRUE ]
                         /\ failures' = failures + 1
    /\ UNCHANGED << Inputs, Recovery, pc, stageIdx, parsed_data,
                    kwargs_parsed_data, worker_arg, status, result >>

\* _stage_schema_validation_internal: the required schema fields whose value
\* is absent, empty or ["N/A"], in schema order
schema_missing_fields(d) ==
    SelectSeq(SchemaFieldSeq,
              LAMBDA x : x \notin DOMAIN d.fields \/ d.fields[x] \in { << >>, << NA >> })

\* the worker runs _stage_comprehensive_validation, _stage_post_processing or
\* _stage_json_validation to its end, on the parsed_data of its kwargs: each
\* returns at once on an empty parsed_data; otherwise comprehensive validation
\* adds the missing required fields to the missing_fields of the dict it was
\* given, post processing returns that dict and JSON validation appends the
\* message of a failed validate_json to it, all in place
DocStageReturns ==
    /\ UNCHANGED Detached
    /\ pc = "running"
    /\ worker = "running"
    /\ stageIdx \in { 5, 7, 8 }
    /\ worker' = "done"
    /\ IF IsEmpty(worker_arg) \/ (stageIdx = 5 /\ ~email_content)
       THEN /\ stage_result' =
                 IF stageIdx = 7
                 THEN [ kind |-> "dict", doc |-> EmptyDoc, error |-> FALSE ]
                 ELSE [ kind |-> "none", doc |-> EmptyDoc, error |-> FALSE ]
            /\ UNCHANGED << kwargs_parsed_data, validate_json_calls >>
       ELSE /\ kwargs_parsed_data' =
                 IF stageIdx = 8 /\ validate_json(kwargs_parsed_data) # << >>
                 THEN [ kwargs_parsed_data EXCEPT !.validation_issues =
                          @ \o << validate_json(kwargs_parsed_data) >> ]
                 ELSE IF stageIdx = 5
                 THEN [ kwargs_parsed_data EXCEPT !.missing_fields =
                          @ \o schema_missing_fields(kwargs_parsed_data) ]
                 ELSE kwargs_parsed_data
            /\ validate_json_calls' =
                 IF stageIdx = 8 THEN validate_json_calls + 1
                 ELSE validate_json_calls
            /\ stage_result' =
                 IF stageIdx = 7
                 THEN [ kind |-> "dict", doc |-> kwargs_parsed_data, error |-> FALSE ]
                 ELSE [ kind |-> "none", doc |-> EmptyDoc, error |-> FALSE ]
    /\ UNCHANGED << Inputs, Recovery, pc, stageIdx, parsed_data, worker_arg,
                    models, status, failures, result >>

\* the worker runs the Sentiment Analysis operation to its end. parse names it
\* _stage_sentiment_analysis; its body is not among the source files, so it is
\* taken from the stage contract: it returns nothing to merge, or raises
SentimentStageReturns ==
    /\ UNCHANGED Detached
    /\ UNCHANGED validate_json_calls
    /\ pc = "running"
    /\ worker = "running"
    /\ stageIdx = 6
    /\ worker' = "done"
    /\ \/ /\ stage_result' = [ kind |-> "none", doc |-> EmptyDoc, error |-> FALSE ]
          /\ UNCHANGED failures
       \/ /\ failures < MaxFailures
          /\ stage_result' = [ kind |-> "raise", doc |-> EmptyDoc, error |-> TRUE ]
          /\ failures' = failures + 1
    /\ UNCHANGED << Inputs, Recovery, pc, stageIdx, parsed_data,
                    kwargs_parsed_data, worker_arg, models, status, result >>

\* the call the worker is in never returns
WorkerHangs ==
    /\ UNCHANGED Detached
    /\ UNCHANGED validate_json_calls
    /\ pc = "running"
    /\ worker = "running"
    /\ failures < MaxFailures
    /\ worker' = "stuck"
    /\ UNCHANGED << Inputs, Recovery, pc, stageIdx, parsed_data,
                    kwargs_parsed_data, worker_arg, stage_result, models,
                    status, failures, result >>

\* future.result returns the stage's result: "if isinstance(stage_result, dict)
\* and stage_result: parsed_data = self.merge_parsed_data(...)"; an exception
\* of the stage is logged by "except Exception"; then the next iteration
FutureResult ==
    /\ UNCHANGED Detached
    /\ UNCHANGED validate_json_calls
    /\ pc = "running"
    /\ worker = "done"
    /\ parsed_data' =
         IF stage_result.kind = "dict" /\ ~IsEmpty(stage_result.doc)
         THEN merge_parsed_data(parsed_data, stage_result.doc)
         ELSE parsed_data
    /\ status' = [ status EXCEPT ![stageIdx] =
                     IF stage_result.kind = "raise" THEN "raised"
                     ELSE IF stage_result.error THEN "extractor_error"
                     ELSE "returned" ]
    /\ pc' = "loop"
    /\ stageIdx' = stageIdx + 1
    /\ worker' = "idle"
    /\ worker_arg' = NoneVal
    /\ stage_result' = NoneVal
    /\ UNCHANGED << Inputs, Recovery, kwargs_parsed_data, models, failures, result >>

\* future.result raises TimeoutError while the worker is still running; leaving
\* the "with ThreadPoolExecutor" block then calls shutdown(wait=True)
TimeoutElapses ==
    /\ UNCHANGED Detached
    /\ UNCHANGED validate_json_calls
    /\ pc = "running"
    /\ worker \in { "running", "stuck" }
    /\ worker = "stuck" \/ failures < MaxFailures
    /\ pc' = "shutdown_wait"
    /\ status' = [ status EXCEPT ![stageIdx] = "timed_out" ]
    /\ failures' = IF worker = "stuck" THEN failures ELSE failures + 1
    /\ UNCHANGED << Inputs, Recovery, stageIdx, parsed_data, kwargs_parsed_data,
                    worker, worker_arg, stage_result, models, result >>

\* the worker of the timed-out stage finishes after all; its result is dropped
LateWorkerReturn ==
    /\ UNCHANGED Detached
    /\ UNCHANGED validate_json_calls
    /\ pc = "shutdown_wait"
    /\ worker = "running"
    /\ worker' = "done"
    /\ IF stageIdx \in 1 .. 4 /\ has_input(stageIdx)
       THEN \E loaded \in LazyLoaded(stageIdx) :
              models' = [ models EXCEPT ![stage_pipeline(stageIdx)] = loaded ]
       ELSE UNCHANGED models
    /\ UNCHANGED << Inputs, Recovery, pc, stageIdx, parsed_data,
                    kwargs_parsed_data, worker_arg, stage_result, status,
                    failures, result >>

\* an executor that is left without waiting for its worker: shutdown(wait=False)
ShutdownDone_without_wait ==
    /\ UNCHANGED Detached
    /\ UNCHANGED validate_json_calls
    /\ pc = "shutdown_wait"
    /\ pc' = "recover"
    /\ UNCHANGED << worker, worker_arg >>
    /\ UNCHANGED << Inputs, Recovery, stageIdx, parsed_data, kwargs_parsed_data,
                    stage_result, models, status, failures, result >>

\* shutdown(wait=True) returns once the worker has finished; the TimeoutError
\* then reaches "except ConcurrentTimeoutError"
ShutdownDone ==
    /\ UNCHANGED Detached
    /\ UNCHANGED validate_json_calls
    /\ pc = "shutdown_wait"
    /\ worker = "done"
    /\ pc' = "recover"
    /\ worker' = "idle"
    /\ worker_arg' = NoneVal
    /\ UNCHANGED << Inputs, Recovery, stageIdx, parsed_data, kwargs_parsed_data,
                    stage_result, models, status, failures, result >>


\* "except ConcurrentTimeoutError: ... self.recover_from_failure(stage_name)":
\* for a stage key of its list, _reinitialize_models runs the six init_* calls
\* (each sets its pipeline, or None on OSError/ValueError; any other exception
\* leaves _reinitialize_models, recover_from_failure and parse) and then the
\* health check
RecoverFromFailure ==
    /\ UNCHANGED Detached
    /\ UNCHANGED validate_json_calls
    /\ pc = "recover"
    /\ recover_calls' = [ recover_calls EXCEPT ![stageIdx] = @ + 1 ]
    /\ IF stage_key(stageIdx) \in RecoverableKeys
       THEN /\ reinit_attempts' = [ reinit_attempts EXCEPT ![stageIdx] = @ + 1 ]
            /\ \E out \in InitOutcomes :
               \E raiseAt \in 0 .. Len(Pipelines) :
                 /\ models' = reinitialized(models, out, raiseAt)
                 /\ IF raiseAt = 0
                    THEN /\ recover_result' = [ recover_result EXCEPT ![stageIdx] =
                                 IF health_check(models') THEN "True" ELSE "False" ]
                         /\ pc' = "loop"
                         /\ stageIdx' = stageIdx + 1
                         /\ UNCHANGED result
                    ELSE /\ pc' = "raised"
                         /\ result' = [ kind |-> "exception", doc |-> EmptyDoc ]
                         /\ UNCHANGED << recover_result, stageIdx >>
       ELSE /\ recover_result' = [ recover_result EXCEPT ![stageIdx] = "False" ]
            /\ pc' = "loop"
            /\ stageIdx' = stageIdx + 1
            /\ UNCHANGED << reinit_attempts, models, result >>
    /\ UNCHANGED << Inputs, parsed_data, kwargs_parsed_data, worker, worker_arg,
                    stage_result, status, failures >>

(***************************************************************************)
(* After the loop                                                          *)
(***************************************************************************)
\* an issue string, as the sequence of its parts
\* f"Missing required field: {section} -> {field}"
missing_issue(x) == << "Missing required field: ", x >>

\* the required schema fields whose first value is "N/A" (or that are absent),
\* in schema order
missing_required(d) ==
    SelectSeq(SchemaFieldSeq,
              LAMBDA x : x \notin DOMAIN d.fields \/ d.fields[x][1] = NA)

\* [f"Missing required field: {field}" for field in missing_fields]
missing_issues(d) ==
    [ k \in 1 .. Len(missing_required(d)) |-> missing_issue(missing_required(d)[k]) ]

\* formatted_data: the first value of every schema field, "N/A" for a field
\* the Document does not hold
formatted_output(d) ==
    [ x \in SchemaFields |->
        IF x \in DOMAIN d.fields /\ d.fields[x] # << >> THEN d.fields[x][1] ELSE NA ]

\* parse returns parsed_data to EnhancedParser.parse_email, which calls
\* validate_json, records the message of a failed validation and the missing
\* required fields in validation_issues, stores formatted_output and returns
\* the Document
EnhancedParser_return ==
    /\ UNCHANGED Detached
    /\ validate_json_calls' = validate_json_calls + 1
    /\ pc = "loop"
    /\ stageIdx = Len(StageNames) + 1
    /\ entry = "EnhancedParser.parse_email"
    /\ pc' = "returned"
    /\ LET msgs == validate_json(parsed_data)
           issues1 == IF msgs # << >>
                      THEN parsed_data.validation_issues \o << msgs >>
                      ELSE parsed_data.validation_issues
       IN  /\ parsed_data' = [ parsed_data EXCEPT
                                 !.validation_issues =
                                     issues1 \o missing_issues(parsed_data),
                                 !.formatted_output = formatted_output(parsed_data) ]
           /\ result' = [ kind |-> "value", doc |-> parsed_data' ]
    /\ UNCHANGED << Inputs, Recovery, stageIdx, kwargs_parsed_data, worker,
                    worker_arg, stage_result, models, status, failures >>

\* parse returns parsed_data to EmailParser.parse_email, which calls
\* validate_json and raises ValueError when it fails
EmailParser_return ==
    /\ UNCHANGED Detached
    /\ validate_json_calls' = validate_json_calls + 1
    /\ pc = "loop"
    /\ stageIdx = Len(StageNames) + 1
    /\ entry = "EmailParser.parse_email"
    /\ IF validate_json(parsed_data) # << >>
       THEN /\ pc' = "raised"
            /\ result' = [ kind |-> "exception", doc |-> EmptyDoc ]
       ELSE /\ pc' = "returned"
            /\ result' = [ kind |-> "value", doc |-> parsed_data ]
    /\ UNCHANGED << Inputs, Recovery, stageIdx, parsed_data, kwargs_parsed_data,
                    worker, worker_arg, stage_result, models, status, failures >>

Next ==
    \/ EnhancedParser_parse_email
    \/ EmailParser_parse_email
    \/ StageSkip
    \/ StageSubmit
    \/ ExtractionStageReturns
    \/ DocStageReturns
    \/ SentimentStageReturns
    \/ WorkerHangs
    \/ FutureResult
    \/ TimeoutElapses
    \/ LateWorkerReturn
    \/ ShutdownDone
    \/ RecoverFromFailure
    \/ EnhancedParser_return
    \/ EmailParser_return

Spec == Init /\ [][Next]_vars

(***************************************************************************)
(* A DataMerger that is given partial results one after another            *)
(***************************************************************************)
MergeInit == OrchestratorIdle /\ MergeIdle /\ FieldIdle /\ SharedIdle

\* merge_parsed_data(document, new_data), called as parse calls it: the
\* Document it returns replaces the accumulated one, a ValueError leaves the
\* accumulated one as it was
MergeCall ==
    /\ merge_calls < MaxMerges
    /\ \E new \in MergePartials :
         LET merged == DataMerger_merge_parsed_data(document, new)
         IN  /\ original_data' = document
             /\ new_data' = new
             /\ document' = merged.result
             /\ changes' = merged.changes
             /\ section_errors' = merged.errors
             /\ merge_outcome' = merged.outcome
             /\ observed' = observed \cup carried(new)
    /\ merge_calls' = merge_calls + 1
    /\ UNCHANGED << OrchestratorVars, FieldVars, SharedVars >>

MergeNext == MergeCall

MergeSpec == MergeInit /\ [][MergeNext]_vars

(***************************************************************************)
(* One field that merge_field_values is applied to again and again         *)
(***************************************************************************)
FieldInit ==
    /\ OrchestratorIdle
    /\ MergeIdle
    /\ SharedIdle
    /\ field_type \in FieldTypes
    /\ field_value = << NA >>
    /\ field_new = << >>
    /\ field_stored = FALSE
    /\ field_merges = 0

\* new_value = merge_field_values(old_value, value, field_config), stored in
\* the field
MergeFieldValues ==
    /\ field_merges < MaxFieldMerges
    /\ \E new \in FieldObservations(field_type) :
         /\ ~merge_field_values_raises(new, field_type)
         /\ field_new' = new
         /\ field_value' = typed_merge_field_values(field_value, new, field_type)
    /\ field_stored' =
         (field_stored \/ \E k \in 1 .. Len(field_value') : field_value'[k] # NA)
    /\ field_merges' = field_merges + 1
    /\ UNCHANGED << OrchestratorVars, MergeVars, SharedVars, field_type >>

FieldNext == MergeFieldValues

FieldSpec == FieldInit /\ [][FieldNext]_vars

(***************************************************************************)
(* Requests that run at the same time: background_parse tasks (green       *)
(* threads) on the one parser of the ParserRegistry. A task yields to the  *)
(* others wherever it sleeps, waits for a future or loads a model          *)
(***************************************************************************)
SharedInit == OrchestratorIdle /\ MergeIdle /\ FieldIdle /\ SharedIdle

\* what the tasks leave alone
Unshared == << OrchestratorVars, MergeVars, FieldVars >>

\* socketio.emit(..., room=t)
Emit(t, e) == emitted' = [ emitted EXCEPT ![t] = Append(@, e) ]

\* parser.is_initialized, which background_parse reads: EnhancedParser does not
\* define it among the source files; a constructed parser is taken to be
\* initialized
is_initialized == TRUE

\* ParserRegistry.get_parser(parser_option, socketio, sid): the one parser of
\* the registry, with its socketio and sid attributes overwritten
get_parser(t) ==
    /\ UNCHANGED Unshared
    /\ task_pc[t] = "new"
    /\ parser_sid' = t
    /\ task_pc' = [ task_pc EXCEPT ![t] = "entered" ]
    /\ UNCHANGED << parser_models, task_step, task_stage, task_reinit,
                    task_document, emitted >>

\* "with parser:" up to the health check: parsing_error and return when the
\* parser is not healthy, parsing_started otherwise
HealthChecked(t) ==
    /\ UNCHANGED Unshared
    /\ task_pc[t] = "entered"
    /\ is_initialized
    /\ IF health_check(parser_models)
       THEN /\ Emit(t, Event("parsing_started", NoneVal))
            /\ task_pc' = [ task_pc EXCEPT ![t] = "progress" ]
       ELSE /\ Emit(t, Event("parsing_error", NoneVal))
            /\ task_pc' = [ task_pc EXCEPT ![t] = "exit" ]
    /\ UNCHANGED << parser_sid, parser_models, task_step, task_stage,
                    task_reinit, task_document >>

\* "for step in stages: socketio.emit("parsing_progress", ...);
\* socketio.sleep(1)", one step
EmitProgress(t) ==
    /\ UNCHANGED Unshared
    /\ task_pc[t] = "progress"
    /\ task_step[t] < Len(ProgressSteps)
    /\ task_step' = [ task_step EXCEPT ![t] = @ + 1 ]
    /\ Emit(t, Event("parsing_progress", ProgressSteps[task_step[t] + 1]))
    /\ UNCHANGED << parser_sid, parser_models, task_pc, task_stage, task_reinit,
                    task_document >>

\* result = parser.parse_email(...): parse starts with parsed_data = {}
CallParseEmail(t) ==
    /\ UNCHANGED Unshared
    /\ task_pc[t] = "progress"
    /\ task_step[t] = Len(ProgressSteps)
    /\ task_pc' = [ task_pc EXCEPT ![t] = "loop" ]
    /\ task_stage' = [ task_stage EXCEPT ![t] = 1 ]
    /\ UNCHANGED << parser_sid, parser_models, task_step, task_reinit,
                    task_document, emitted >>

\* a stage of the task's parse call returns in time and its result is merged
\* into the parsed_data of that call
TaskStageReturns(t) ==
    /\ UNCHANGED Unshared
    /\ task_pc[t] = "loop"
    /\ task_stage[t] \in Stages
    /\ task_document' = [ task_document EXCEPT ![t] = @ \cup { t } ]
    /\ task_stage' = [ task_stage EXCEPT ![t] = @ + 1 ]
    /\ UNCHANGED << parser_sid, parser_models, task_pc, task_step, task_reinit,
                    emitted >>

\* a stage of the task's parse call times out: recover_from_failure enters
\* _reinitialize_models, which starts its first init_* call
TaskStageTimesOut(t) ==
    /\ UNCHANGED Unshared
    /\ task_pc[t] = "loop"
    /\ task_stage[t] \in Stages
    /\ task_pc' = [ task_pc EXCEPT ![t] = "recover" ]
    /\ task_reinit' = [ task_reinit EXCEPT ![t] = 1 ]
    /\ UNCHANGED << parser_sid, parser_models, task_step, task_stage,
                    task_document, emitted >>

\* the init_* call the task is in sets its pipeline attribute of the shared
\* parser (None when loading failed); the next init_* call starts, or
\* _reinitialize_models returns and the stage loop goes on
InitPipeline(t) ==
    /\ UNCHANGED Unshared
    /\ task_pc[t] = "recover"
    /\ \E loaded \in BOOLEAN :
         /\ parser_models' =
               [ parser_models EXCEPT ![Pipelines[task_reinit[t]]] = loaded ]
         /\ Cardinality({ p \in PipelineSet : ~parser_models'[p] }) <= MaxInitFailures
    /\ IF task_reinit[t] < Len(Pipelines)
       THEN /\ task_reinit' = [ task_reinit EXCEPT ![t] = @ + 1 ]
            /\ UNCHANGED << task_pc, task_stage >>
       ELSE /\ task_reinit' = [ task_reinit EXCEPT ![t] = 0 ]
            /\ task_pc' = [ task_pc EXCEPT ![t] = "loop" ]
            /\ task_stage' = [ task_stage EXCEPT ![t] = @ + 1 ]
    /\ UNCHANGED << parser_sid, task_step, task_document, emitted >>

\* the init_* call the task is in raises an exception that is neither OSError
\* nor ValueError: it leaves parse and parse_email
InitRaises(t) ==
    /\ UNCHANGED Unshared
    /\ task_pc[t] = "recover"
    /\ task_pc' = [ task_pc EXCEPT ![t] = "failed" ]
    /\ task_reinit' = [ task_reinit EXCEPT ![t] = 0 ]
    /\ UNCHANGED << parser_sid, parser_models, task_step, task_stage,
                    task_document, emitted >>

\* parse_email returns the Document: socketio.emit("parsing_completed", ...)
ParseEmailReturns(t) ==
    /\ UNCHANGED Unshared
    /\ task_pc[t] = "loop"
    /\ task_stage[t] = Len(StageNames) + 1
    /\ Emit(t, Event("parsing_completed", NoneVal))
    /\ task_pc' = [ task_pc EXCEPT ![t] = "exit" ]
    /\ UNCHANGED << parser_sid, parser_models, task_step, task_stage,
                    task_reinit, task_document >>

\* the "with parser:" block is left: __exit__ calls cleanup_resources, whose
\* torch.cuda.empty_cache() is outside its try; an exception that left the
\* block or that cleanup raised reaches "except Exception", which emits
\* parsing_error
ParserExit(t) ==
    /\ UNCHANGED Unshared
    /\ task_pc[t] \in { "exit", "failed" }
    /\ \E cleanup_raises \in BOOLEAN :
         IF task_pc[t] = "failed" \/ cleanup_raises
         THEN Emit(t, Event("parsing_error", NoneVal))
         ELSE UNCHANGED emitted
    /\ task_pc' = [ task_pc EXCEPT ![t] = "done" ]
    /\ UNCHANGED << parser_sid, parser_models, task_step, task_stage,
                    task_reinit, task_document >>

background_parse(t) ==
    \/ get_parser(t)
    \/ HealthChecked(t)
    \/ EmitProgress(t)
    \/ CallParseEmail(t)
    \/ TaskStageReturns(t)
    \/ TaskStageTimesOut(t)
    \/ InitPipeline(t)
    \/ InitRaises(t)
    \/ ParseEmailReturns(t)
    \/ ParserExit(t)

SharedNext == \E t \in Sids : background_parse(t)

SharedSpec == SharedInit /\ [][SharedNext]_vars


(***************************************************************************)
(* Properties of the orchestrator                                          *)
(***************************************************************************)
\* the stages that failed so far
FailedStatuses == { "timed_out", "extractor_error", "raised" }

\* the issue string names the stage
Mentions(issue, name) == \E k \in 1 .. Len(issue) : issue[k] = name

\* validation_issues of d holds an issue string that names stage i
HasStageIssue(d, i) ==
    \E k \in 1 .. Len(d.validation_issues) :
        Mentions(d.validation_issues[k], StageNames[i])

\* an exception left parse while stage stageIdx was being handled
ParseAborted == pc = "raised" /\ stageIdx \in Stages

\* parse is over: it returned to the entry operation, or an exception left it
ParseOver == pc \in { "returned", "raised" } /\ stageIdx > 0

\* C1: one stage's failure never aborts the pipeline: once a stage has failed
\* (timeout, exception of the stage), whatever the recovery attempt does, no
\* exception leaves parse, and when parse is over every later stage of the
\* list was attempted (or skipped for want of its input).
C1_StageFailureNeverAborts ==
    \A i \in Stages :
        status[i] \in FailedStatuses =>
            /\ ~ParseAborted
            /\ ParseOver => \A j \in Stages : j > i => status[j] # "pending"

\* C2: the caller is never blocked indefinitely: once the timeout of a stage has
\* elapsed the orchestrator does not wait for a worker that never finishes.
C2_CallerNeverBlocked == ~(pc = "shutdown_wait" /\ worker = "stuck")

\* C3: timeout isolation: while a timed-out stage is handled no merged field
\* changes, and when its handling ends validation_issues holds an issue string
\* that names the stage.
TimeoutHandledStep ==
    (stageIdx \in Stages /\ status'[stageIdx] = "timed_out") =>
        /\ parsed_data'.fields = parsed_data.fields
        /\ (pc = "recover" /\ pc' = "loop") => HasStageIssue(parsed_data', stageIdx)

C3_TimeoutIsolation == [][TimeoutHandledStep]_vars

\* C4: every stage that takes the Document is invoked with the Document as the
\* most recent merge returned it.
C4_StagesGetAccumulatedDocument ==
    (pc = "running" /\ stageIdx \in DocStages) => worker_arg = parsed_data

\* C5: an exception raised inside a stage's extraction operation is turned into
\* an issue string in validation_issues, and does not leave the orchestrator.
C5_ExtractorErrorRecorded ==
    \A i \in Stages :
        status[i] = "extractor_error" =>
            /\ HasStageIssue(parsed_data, i)
            /\ ~(ParseAborted /\ stageIdx = i)

\* C6: the Recovery Policy is invoked for every kind of stage failure, after
\* the failure and before the next stage starts.
C6_RecoveryOnEveryFailure ==
    \A i \in Stages :
        (status[i] \in FailedStatuses /\ stageIdx > i) => recover_calls[i] >= 1

\* C7: recover_from_failure returns True only if every pipeline is set after
\* the reinitialization (the health check succeeds), and one failure leads to
\* at most one reinitialization attempt.
RecoveredStep ==
    \A i \in Stages :
        /\ (recover_result'[i] = "True" /\ recover_result[i] # "True") =>
              \A p \in PipelineSet : models'[p]
        /\ reinit_attempts'[i] <= 1

C7_RecoveredOnlyIfHealthy == [][RecoveredStep]_vars

\* C7 witness: a timed-out stage was reported recovered after one attempt
C7_Witness ==
    \E i \in Stages :
        status[i] = "timed_out" /\ recover_result[i] = "True" /\ reinit_attempts[i] = 1

\* C8: without text and without image no stage is executed, through every
\* entry point, and the caller gets no Document (an error, or at most the empty
\* mapping).
C8_NoInputNoStage ==
    (~email_content /\ ~document_image) =>
        /\ \A i \in Stages : status[i] = "pending"
        /\ pc = "returned" => IsEmpty(result.doc)

\* C9: without an image Donut Parsing is never executed, records no issue and
\* triggers no recovery, and every other stage the loop has passed was run.
C9_DonutSkippedWithoutImage ==
    ~document_image =>
        /\ status[3] \in { "pending", "skipped" }
        /\ stageIdx > 3 => status[3] = "skipped"
        /\ recover_calls[3] = 0 /\ reinit_attempts[3] = 0
        /\ ~HasStageIssue(parsed_data, 3)
        /\ \A j \in Stages \ { 3 } :
              stageIdx > j => status[j] \notin { "pending", "skipped", "running" }

\* C9 witness: a run without image went through the whole stage list
C9_Witness ==
    /\ ~document_image /\ email_content
    /\ status[3] = "skipped"
    /\ status[4] = "returned" /\ status[8] = "returned"
    /\ pc = "returned"

\* C10: the stages run in the declared order, one at a time; the merge of a
\* stage's result happens after its operation returned and before the next
\* stage starts; and the stages after a timed-out one still run.
StagesInOrder ==
    \A j \in Stages :
        /\ status[j] # "pending" =>
              \A i \in Stages : i < j => status[i] \notin { "pending", "running" }
        /\ (status[j] = "timed_out" /\ ParseOver) =>
              \A k \in Stages : k > j => status[k] # "pending"

MergeStep ==
    parsed_data'.fields # parsed_data.fields =>
        /\ pc = "running" /\ worker = "done"
        /\ pc' = "loop" /\ stageIdx' = stageIdx + 1

C10_OrderedStages == []StagesInOrder /\ [][MergeStep]_vars

(***************************************************************************)
(* Properties of the end of a request                                      *)
(***************************************************************************)
\* the request carries a usable input
UsableInput == validate_input(email_content, document_image)

\* the entry operation is over: it returned, or an exception left it
RequestOver == pc \in { "returned", "raised" }

\* C11: for a request with usable input, validate_json is called only after the
\* last stage, and when the request is over it was called exactly once and the
\* caller holds a Document with its issues list (not an exception).
C11_ValidatedOnceThenReturned ==
    UsableInput =>
        /\ validate_json_calls > 0 => stageIdx = Len(StageNames) + 1
        /\ RequestOver => (validate_json_calls = 1 /\ result.kind = "value")

\* C18: whatever the stages did, the Document returned after validate_json ran
\* holds every required schema field, at least as ["N/A"].
C18_RequiredFieldsInReturnedDocument ==
    (pc = "returned" /\ UsableInput /\ result.kind = "value") =>
        \A x \in SchemaFields :
            x \in DOMAIN result.doc.fields /\ result.doc.fields[x] # << >>

\* C19: a required field that no stage observed is ["N/A"] in the returned
\* Document and its name is in the Document's missing_fields list.
C19_UnobservedFieldListedMissing ==
    (pc = "returned" /\ UsableInput /\ result.kind = "value") =>
        \A x \in SchemaFields :
            (x \notin DOMAIN result.doc.fields \/ result.doc.fields[x] = << NA >>) =>
                /\ x \in DOMAIN result.doc.fields
                /\ result.doc.fields[x] = << NA >>
                /\ \E k \in 1 .. Len(result.doc.missing_fields) :
                      result.doc.missing_fields[k] = x

(***************************************************************************)
(* Properties of the merge                                                 *)
(***************************************************************************)
AssignmentInformation == "Assignment Information"

DateOfLoss == "Date of Loss/Occurrence"

ResidenceOccupied == "Residence Occupied During Loss"

\* the partial result has string, date and boolean fields and sections outside
\* the schema only (no object field)
StringDateBoolean(new) == "Assignment Type" \notin DOMAIN new

\* C12: idempotent re-merge: merging the partial result of the last call (string,
\* date and boolean fields, free-form sections) into the Document that call
\* returned gives that Document again.
C12_IdempotentRemerge ==
    (merge_outcome = "returned" /\ StringDateBoolean(new_data)) =>
        LET again == DataMerger_merge_parsed_data(document, new_data)
        IN  again.outcome = "returned" /\ again.result = document

\* C12 witness: a second merge of string, date and boolean fields changed the
\* Document
C12_Witness ==
    /\ merge_outcome = "returned" /\ merge_calls = 2
    /\ StringDateBoolean(new_data)
    /\ DOMAIN new_data = { "Insured Information", AssignmentInformation }
    /\ DOMAIN new_data[AssignmentInformation].fields = { DateOfLoss, ResidenceOccupied }
    /\ field_get(document, "Insured Information", "Name") = << "a" >>
    /\ field_get(document, AssignmentInformation, DateOfLoss)
          # field_get(original_data, AssignmentInformation, DateOfLoss)
    /\ field_get(document, AssignmentInformation, ResidenceOccupied)
          # field_get(original_data, AssignmentInformation, ResidenceOccupied)
    /\ original_data # << >>

\* C13: sentinel elimination: once a merge has stored a value other than "N/A"
\* in a field, of whatever type, "N/A" is not in the field's value list after
\* any later merge.
C13_SentinelElimination ==
    field_stored => \A k \in 1 .. Len(field_value) : field_value[k] # NA

\* C14: the date of loss is stored normalized to YYYY-MM-DD and deduplicated
\* after normalization: whatever formats the stages observed the one date in,
\* its value list is ["2024-01-15"] (or ["N/A"] while unobserved).
C14_DatesNormalizedAndDeduplicated ==
    merge_outcome = "returned" =>
        field_get(document, AssignmentInformation, DateOfLoss)
            \in { << NA >>, << "2024-01-15" >> }

\* the MergeChange records of type update of the last call for a field
UpdatesOf(section, field) ==
    SelectSeq(changes, LAMBDA c : /\ c.change_type = "update"
                                  /\ c.section = section /\ c.field = field)

\* C15: a boolean field holds the last observation merged into it (true then
\* false gives false), and when that differs from what the field held, the
\* merge emitted exactly one update record for the field.
C15_BooleanLastWriteWins ==
    ( /\ merge_outcome = "returned"
      /\ AssignmentInformation \in DOMAIN new_data
      /\ ResidenceOccupied \in DOMAIN new_data[AssignmentInformation].fields
      /\ new_data[AssignmentInformation].fields[ResidenceOccupied] # << >> ) =>
        LET seen == new_data[AssignmentInformation].fields[ResidenceOccupied]
            last == << text_to_bool(seen[Len(seen)]) >>
        IN  /\ field_get(document, AssignmentInformation, ResidenceOccupied) = last
            /\ field_get(original_data, AssignmentInformation, ResidenceOccupied) # last
                  => Len(UpdatesOf(AssignmentInformation, ResidenceOccupied)) = 1

\* data.get(section)
section_get(data, section) ==
    IF section \in DOMAIN data THEN data[section] ELSE Scalar(NoneVal)

\* the value of what a MergeChange record names differs between the Document
\* the call was given and the Document it returned
ChangedByCall(section, field) ==
    IF field = NoneVal
    THEN section_get(original_data, section) # section_get(document, section)
    ELSE field_get(original_data, section, field) # field_get(document, section, field)

\* C16: change-record accounting: the update records of a merge call name, one
\* each, the fields and free-form sections whose value differs between the
\* Document before and after the call; none names a value that did not change.
C16_ChangeRecordAccounting ==
    merge_outcome = "returned" =>
        /\ \A k \in 1 .. Len(changes) :
              changes[k].change_type = "update" =>
                  /\ ChangedByCall(changes[k].section, changes[k].field)
                  /\ Len(UpdatesOf(changes[k].section, changes[k].field)) = 1
        /\ \A sf \in SchemaPairs :
              ( /\ sf[1] \in DOMAIN original_data
                /\ sf[2] \in DOMAIN original_data[sf[1]].fields
                /\ ChangedByCall(sf[1], sf[2]) ) =>
                  Len(UpdatesOf(sf[1], sf[2])) = 1
        /\ \A section \in { FreeFormList, FreeFormScalar } :
              (section \in DOMAIN original_data /\ ChangedByCall(section, NoneVal)) =>
                  Len(UpdatesOf(section, NoneVal)) = 1

\* C17: after a merge call that returned a Document, every required section and
\* every required field of it is in the Document, as ["N/A"] when no partial
\* result carried it.
C17_RequiredFieldsAfterMerge ==
    merge_outcome = "returned" =>
        \A sf \in SchemaPairs :
            schema_required(sf[1], sf[2]) =>
                /\ sf[1] \in DOMAIN document
                /\ document[sf[1]].kind = "dict"
                /\ sf[2] \in DOMAIN document[sf[1]].fields
                /\ sf \notin observed => document[sf[1]].fields[sf[2]] = << NA >>

\* C17 witness: a merge returned a Document with an observed date and a name
\* that no partial result carried
C17_Witness ==
    /\ merge_outcome = "returned"
    /\ << "Insured Information", "Name" >> \notin observed
    /\ "Insured Information" \notin DOMAIN original_data
    /\ field_get(document, "Insured Information", "Name") = << NA >>
    /\ "Name" \in DOMAIN document["Insured Information"].fields
    /\ field_get(document, AssignmentInformation, DateOfLoss) = << "2024-01-15" >>

\* C20: partial-failure isolation: a section whose merge raised has every field
\* as the Document held it before the call, and the other sections of the
\* partial result are merged as they are without it.
C20_SectionErrorLeavesSectionUnmodified ==
    merge_outcome = "returned" =>
        \A section \in section_errors :
            /\ \A k \in 1 .. Len(SectionFields(section)) :
                  field_get(document, section, SectionFields(section)[k])
                      = field_get(original_data, section, SectionFields(section)[k])
            /\ LET rest == [ x \in DOMAIN new_data \ { section } |-> new_data[x] ]
                    alone == DataMerger_merge_parsed_data(original_data, rest)
                IN  \A x \in DOMAIN rest : document[x] = alone.result[x]

\* C28: merging never loses an observation: every value other than "N/A" that a
\* schema field whose type is not boolean held before a merge call is in the
\* field's value list after the call.
C28_MergeKeepsObservations ==
    merge_outcome = "returned" =>
        \A sf \in SchemaPairs :
            schema_type(sf[1], sf[2]) # "boolean" =>
                LET before == field_get(original_data, sf[1], sf[2])
                    after == field_get(document, sf[1], sf[2])
                IN  \A k \in 1 .. Len(before) :
                        before[k] # NA =>
                            \E j \in 1 .. Len(after) : after[j] = before[k]

\* C28 witness: a merge call gave a field that held one observation another
\* one, and the field holds both
C28_Witness ==
    /\ merge_outcome = "returned"
    /\ field_get(original_data, AssignmentInformation, DateOfLoss) = << "2024/01/15" >>
    /\ AssignmentInformation \in DOMAIN new_data
    /\ field_get(new_data, AssignmentInformation, DateOfLoss) = << "2024-01-15" >>
    /\ field_get(document, AssignmentInformation, DateOfLoss)
          = << "2024/01/15", "2024-01-15" >>

\* C29: merge_field_values never returns an empty list: after any sequence of
\* merges into a field, of whatever type, the field's value list has at least
\* one element.
C29_ValueListNeverEmpty == field_merges > 0 => field_value # << >>

(***************************************************************************)
(* Properties of the validation of the final Document                      *)
(***************************************************************************)
\* C21: a failed validation is reported, never raised: no entry point ends in
\* an exception once validate_json has been called on the parsed Document.
C21_ValidationFailureNeverRaised == validate_json_calls > 0 => pc # "raised"

\* the step in which an entry point validates the Document parse returned
ValidationStep == EnhancedParser_return \/ EmailParser_return

\* the list t is the list s with items appended
AppendedTo(s, t) == Len(s) <= Len(t) /\ SubSeq(t, 1, Len(s)) = s

\* a validation step leaves the business fields and every key other than the
\* reserved issue lists as they were, and only appends to the issue lists
ValidationFrameStep ==
    ValidationStep =>
        /\ parsed_data'.fields = parsed_data.fields
        /\ parsed_data'.formatted_output = parsed_data.formatted_output
        /\ AppendedTo(parsed_data.validation_issues, parsed_data'.validation_issues)
        /\ AppendedTo(parsed_data.missing_fields, parsed_data'.missing_fields)

\* C22: validating a Document changes nothing except appending to the reserved
\* issue lists: the business fields stay as they are and no other key is
\* added.
C22_ValidationOnlyAppendsIssues == [][ValidationFrameStep]_vars

\* the Document with the message of a failed validation recorded in its
\* validation_issues list
with_recorded_issues(d) ==
    IF validate_json(d) # << >>
    THEN [ d EXCEPT !.validation_issues = @ \o << validate_json(d) >> ]
    ELSE d

\* the Document parse returned is about to be validated
AtValidation == pc = "loop" /\ stageIdx = Len(StageNames) + 1

\* C30: validation is stable under its own output: validating the Document
\* again after the issues of the first validation were recorded in its
\* validation_issues list reports the same issues as the first validation.
C30_ValidationStableUnderOwnOutput ==
    AtValidation =>
        validate_json(with_recorded_issues(parsed_data)) = validate_json(parsed_data)

\* a run of EnhancedParser.parse_email on text only in which every stage that
\* took part returned and every required field was observed with a value
CleanTextRun ==
    /\ pc = "returned" /\ entry = "EnhancedParser.parse_email"
    /\ email_content /\ ~document_image
    /\ \A i \in Stages \ { 3 } : status[i] = "returned"
    /\ \A x \in SchemaFields :
          x \in DOMAIN result.doc.fields /\ result.doc.fields[x][1] # NA

\* C23: end-to-end clean run: on text only, with every stage succeeding and a
\* value for every required field, the returned Document has every declared
\* field, Donut Parsing was not invoked, and its issue list is empty (the
\* Document has no optional field a notice could be about).
C23_CleanRunHasNoIssues ==
    CleanTextRun =>
        /\ DOMAIN result.doc.fields = SchemaFields
        /\ status[3] = "skipped"
        /\ result.doc.validation_issues = << >>

(***************************************************************************)
(* Properties of the stage worker                                          *)
(***************************************************************************)
\* C27: at most one stage worker is active, and the worker of a timed-out stage
\* has finished before recovery begins and before the next stage is started:
\* while parse is in recovery, between two stages or over, no worker is active,
\* and an active worker is the one of the current stage.
C27_TimedOutWorkerFinishedBeforeRecovery ==
    /\ pc \in { "idle", "loop", "recover", "returned", "raised" } => worker = "idle"
    /\ worker # "idle" =>
          /\ stageIdx \in Stages
          /\ status[stageIdx] \in { "running", "timed_out" }
          /\ \A j \in Stages \ { stageIdx } : status[j] # "running"

\* C27 witness: recovery is about to begin for a stage that timed out, after
\* its worker finished
C27_Witness ==
    /\ pc = "recover"
    /\ stageIdx \in Stages /\ status[stageIdx] = "timed_out"
    /\ worker = "idle"

(***************************************************************************)
(* Properties of requests that share the registry's parser                 *)
(***************************************************************************)
\* C24: reinitialization is serialized: two tasks are never inside the init_*
\* call of the same extractor of the shared parser at the same time.
C24_ReinitializationSerialized ==
    \A t1, t2 \in Sids :
        (t1 # t2 /\ task_pc[t1] = "recover" /\ task_pc[t2] = "recover") =>
            task_reinit[t1] # task_reinit[t2]

\* the task has taken the parser from the registry and has not completed
InFlight(t) == task_pc[t] \notin { "new", "done" }

\* C25: no in-flight state is reused across requests: while a request is in
\* flight, the sid held by the parser is the one set for that request, and
\* only that request's stages have written its Document.
C25_NoInFlightStateReused ==
    \A t \in Sids :
        InFlight(t) => (parser_sid = t /\ task_document[t] \subseteq { t })

\* the stage work of the task's request has started: its parse call is at a
\* stage
WorkStarted(t) == task_stage[t] >= 1

\* the events sent for a request are in order: parsing_started before any
\* progress or completion
StartedFirst(t) ==
    \A k \in 1 .. Len(emitted[t]) :
        emitted[t][k].name \in { "parsing_progress", "parsing_completed" } =>
            (k > 1 /\ emitted[t][1].name = "parsing_started")

\* a progress event is sent only once the work of the request has started
ProgressAfterWork(t) ==
    \A k \in 1 .. Len(emitted[t]) :
        emitted[t][k].name = "parsing_progress" => WorkStarted(t)

\* parsing_completed or parsing_error ends the events of a request, and no
\* event is sent twice
TerminalOnce(t) ==
    /\ \A k \in 1 .. Len(emitted[t]) :
          emitted[t][k].name \in { "parsing_completed", "parsing_error" } =>
              k = Len(emitted[t])
    /\ \A j, k \in 1 .. Len(emitted[t]) : emitted[t][j] = emitted[t][k] => j = k

\* C26: the sink receives, for each request, parsing_started first, then
\* progress events each sent only after the work it reports has started, then
\* one terminal parsing_completed or parsing_error; no event is sent twice and
\* the two terminal events are never both sent.
C26_OrderedEvents ==
    \A t \in Sids : StartedFirst(t) /\ ProgressAfterWork(t) /\ TerminalOnce(t)

====
